---- MODULE Spec2Model ----
(***************************************************************************)
(* Model of the bot-process lifecycle manager of                           *)
(* gemini-webrtc-web-simple/server/server.py: the registry bot_procs, the  *)
(* launch handlers (GET /bot/activate, GET /?autobot=true), the control    *)
(* handlers (GET /bot/deactivate, GET /status/{pid}, POST /connect), the   *)
(* shutdown reaper cleanup(), and the child processes behind the Popen     *)
(* objects.                                                                *)
(*                                                                         *)
(* The async handlers run on one event loop: a handler runs without        *)
(* interruption from one await to the next.  The awaits of                 *)
(* create_room_and_token come before a handler has read or written the     *)
(* registry, so the stretch from the arrival of a request to its first     *)
(* read of bot_procs is one action.  activate_bot has one more await,      *)
(* `await get_token(room_url)` on line 242, between its capacity check and *)
(* Popen: a request suspended there is an element of `pending`.            *)
(*                                                                         *)
(* Process ids are interchangeable: they are named 1, 2, ... in the order  *)
(* of their first use.  A pid is handed out again once its process has     *)
(* been reaped.                                                            *)
(***************************************************************************)
EXTENDS Integers, Sequences, FiniteSets, Bags, TLC

\* ---------------------------------------------------------------- bounds
\* number of distinct room urls (created by the provisioner or supplied)
NumRooms == 2
\* number of launches a run admits: children started plus activate requests
\* suspended before their Popen
MaxSpawn == 2

\* ------------------------------------------------------------- constants
MAX_BOTS_PER_ROOM == 1

\* one process id per child suffices: a child gets a reaped pid or the next
\* unused one
Pids == 1..MaxSpawn
RoomIds == 1..NumRooms
\* a room_url of None (query parameter omitted)
NoRoom == 0

VARIABLES
  bot_procs,    \* the registry: pid -> (Popen object, room_url)
  os,           \* the server's child processes, by pid
  pending,      \* activate requests suspended at the await of line 242 (a bag)
  roomsCreated, \* rooms the provisioner (Daily REST API) has created
  resp,         \* what the last step answered, if it was a handler
  spawned,      \* number of children started so far (bounds the run)
  reaper        \* position of lifespan shutdown / cleanup()

vars == <<bot_procs, os, pending, roomsCreated, resp, spawned, reaper>>

\* a registry entry: proc is "absent" (no such key), "unpolled" (the Popen
\* object has no returncode yet) or "returned" (returncode set by poll/wait);
\* sig records that terminate() was called on the Popen object
NoEntry == [proc |-> "absent", room |-> NoRoom, sig |-> FALSE]
\* a pid of the operating system: "free", "running", or "zombie" (exited,
\* not yet reaped); room is the -u argument of the process
NoProc == [st |-> "free", room |-> NoRoom]
NoResp == [op |-> "none", arg |-> NoRoom, status |-> "none", room |-> NoRoom,
           pid |-> 0, stopped |-> <<>>, msg |-> "none", creates |-> 0,
           token |-> "none"]

\* ------------------------------------------------------ registry helpers
\* keys of bot_procs
Registered == {p \in Pids : bot_procs[p].proc # "absent"}

\* proc.poll() is None, for the Popen object registered under pid p
IsRunning(bp, ps, p) == bp[p].proc = "unpolled" /\ ps[p].st = "running"

\* the keys whose Popen object is polled by a scan
\* `... if proc[1] == room_url and proc[0].poll() is None` (short-circuit and)
RoomKeys(room) == {p \in Registered : bot_procs[p].room = room}

\* proc.poll() on the entries S: a zombie is reaped, the Popen object gets
\* its returncode and the operating system may hand the pid out again
PollBP(bp, ps, S) ==
  [p \in Pids |-> IF p \in S /\ bp[p].proc = "unpolled" /\ ps[p].st = "zombie"
                  THEN [bp[p] EXCEPT !.proc = "returned"] ELSE bp[p]]
PollOS(bp, ps, S) ==
  [p \in Pids |-> IF p \in S /\ bp[p].proc = "unpolled" /\ ps[p].st = "zombie"
                  THEN NoProc ELSE ps[p]]

\* num_bots_in_room = sum(1 for proc in bot_procs.values()
\*                        if proc[1] == room_url and proc[0].poll() is None)
NumBotsInRoom(room) ==
  Cardinality({p \in RoomKeys(room) : IsRunning(bot_procs, os, p)})

\* variant: the comparison off by one
ActivateCapReached_gt(n) == n > MAX_BOTS_PER_ROOM

\* variant: the check left out
ActivateCapReached_off(n) == FALSE

\* if num_bots_in_room >= MAX_BOTS_PER_ROOM   (activate_bot)
ActivateCapReached(n) == n >= MAX_BOTS_PER_ROOM

\* variant: the comparison of start_agent off by one
AutobotCapReached_gt(n) == n > MAX_BOTS_PER_ROOM

\* if num_bots_in_room >= MAX_BOTS_PER_ROOM   (start_agent)
AutobotCapReached(n) == n >= MAX_BOTS_PER_ROOM

\* proc.pid of a new child: a pid no live or zombie process holds; of the
\* pids never used, the first
FreePids(bp, ps) ==
  {p \in Pids : /\ ps[p].st = "free"
                /\ bp[p].proc = "absent" => \A q \in 1..(p - 1) : bp[q].proc # "absent"}

\* variant: the tuple stored without the room url
Register_noroom(bp, pid, room) ==
  [bp EXCEPT ![pid] = [proc |-> "unpolled", room |-> NoRoom, sig |-> FALSE]]

\* variant: the process is started and not registered
Register_skip(bp, pid, room) == bp

\* bot_procs[proc.pid] = (proc, room_url)
Register(bp, pid, room) ==
  [bp EXCEPT ![pid] = [proc |-> "unpolled", room |-> room, sig |-> FALSE]]

\* subprocess.Popen([... -u room_url -t token]) started a child with this pid
Popen(ps, pid, room) == [ps EXCEPT ![pid] = [st |-> "running", room |-> room]]

\* dict order of the keys: insertion order, which is the order of first use
bot_order == [i \in 1..Cardinality(Registered) |-> i]

SeqToSet(s) == {s[i] : i \in 1..Len(s)}

ServerUp == reaper.pc = "up"

\* one more launch may pass its capacity check (model bound)
CanLaunch == spawned + BagCardinality(pending) < MaxSpawn
\* the provisioner has a room url left to give out (model bound)
CanCreateRoom == roomsCreated < NumRooms

\* ------------------------------------------------------------------ Init
Init ==
  /\ bot_procs = [p \in Pids |-> NoEntry]
  /\ os = [p \in Pids |-> NoProc]
  /\ pending = EmptyBag
  /\ roomsCreated = 0
  /\ resp = NoResp
  /\ spawned = 0
  /\ reaper = [pc |-> "up", idx |-> 0, live0 |-> {}]

\* ------------------------------------------------- create_room_and_token
\* the outcomes of create_room_and_token (lines 106-114): room and token,
\* no room (line 108), or a room and no token (line 112)
ProvisionOutcomes == {"ok", "no_room", "no_token"}

\* the room url of the room created by this call, NoRoom when none was
ProvisionedRoom(out) == IF out = "no_room" THEN NoRoom ELSE roomsCreated + 1

\* the detail of the HTTPException of line 108 or line 112
ProvisionError(out) ==
  IF out = "no_room" THEN "Failed to create room"
  ELSE "Failed to get token for room"

\* ---------------------------------------------------------- activate_bot
\* the exception handler of activate_bot calls logger.error, and no name
\* `logger` is bound in server.py: the handler itself raises NameError and
\* the request ends as an unhandled exception (500 Internal Server Error)
ActivateExcept(arg, room) ==
  [NoResp EXCEPT !.op = "activate", !.arg = arg, !.status = "unhandled",
                 !.room = room, !.msg = "NameError",
                 !.creates = IF arg = NoRoom THEN 1 ELSE 0]

\* lines 232-237, then suspension at `await get_token(room_url)` (line 242)
ActivateCheck(arg, room) ==
  /\ bot_procs' = PollBP(bot_procs, os, RoomKeys(room))
  /\ os' = PollOS(bot_procs, os, RoomKeys(room))
  /\ IF ActivateCapReached(NumBotsInRoom(room))
     THEN /\ resp' = [NoResp EXCEPT !.op = "activate", !.arg = arg,
                        !.status = "error", !.room = room,
                        !.msg = "Max bot limit reached for room",
                        !.creates = IF arg = NoRoom THEN 1 ELSE 0]
          /\ UNCHANGED pending
     ELSE /\ CanLaunch
          /\ resp' = [NoResp EXCEPT !.op = "activate", !.arg = arg,
                        !.status = "await_token", !.room = room,
                        !.creates = IF arg = NoRoom THEN 1 ELSE 0]
          /\ pending' = pending (+) SetToBag({[arg |-> arg, room |-> room]})

\* GET /bot/activate: lines 227-237, from the arrival of the request to the
\* await of line 242
ActivateBegin(arg) ==
  /\ ServerUp
  /\ IF arg = NoRoom
     THEN /\ CanCreateRoom
          /\ \E out \in ProvisionOutcomes :
               /\ roomsCreated' = IF out = "no_room" THEN roomsCreated
                                  ELSE roomsCreated + 1
               /\ IF out = "ok"
                  THEN ActivateCheck(NoRoom, ProvisionedRoom(out))
                  ELSE /\ resp' = ActivateExcept(NoRoom, NoRoom)
                       /\ UNCHANGED <<bot_procs, os, pending>>
     ELSE /\ ActivateCheck(arg, arg)
          /\ UNCHANGED roomsCreated
  /\ UNCHANGED <<reaper, spawned>>

\* lines 239-257: the token request returns, Popen, register, respond
ActivateSpawn(q) ==
  /\ BagIn(q, pending)
  /\ pending' = pending (-) SetToBag({q})
  /\ \* get_token returns a token or None; either is put on the command line
     \/ \E tok \in {"token", "None"}, pid \in FreePids(bot_procs, os) :
          /\ spawned' = spawned + 1
          /\ os' = Popen(os, pid, q.room)
          /\ bot_procs' = Register(bot_procs, pid, q.room)
          /\ resp' = [NoResp EXCEPT !.op = "activate", !.arg = q.arg,
                        !.status = "bot_activated", !.room = q.room,
                        !.pid = pid, !.msg = "Bot has been activated in the session",
                        !.creates = IF q.arg = NoRoom THEN 1 ELSE 0,
                        !.token = tok]
     \* get_token raises, or Popen raises (OSError)
     \/ /\ resp' = ActivateExcept(q.arg, q.room)
        /\ UNCHANGED <<bot_procs, os, spawned>>
  /\ UNCHANGED <<roomsCreated, reaper>>

\* ----------------------------------------------------------- start_agent
\* raise HTTPException(status_code=500, ...) leaving start_agent
AutobotExcept(room, msg) ==
  [NoResp EXCEPT !.op = "autobot", !.status = "http500", !.room = room,
                 !.msg = msg, !.creates = 1]

\* variant: the process is started before the room is created
start_agent_spawnfirst ==
  /\ ServerUp
  /\ CanCreateRoom
  /\ CanLaunch
  /\ \E pid \in FreePids(bot_procs, os) :
       /\ os' = Popen(os, pid, NoRoom)
       /\ bot_procs' = Register(bot_procs, pid, NoRoom)
       /\ spawned' = spawned + 1
       /\ resp' = AutobotExcept(NoRoom, ProvisionError("no_room"))
  /\ UNCHANGED <<roomsCreated, pending, reaper>>

\* GET /?autobot=true: lines 128-154
start_agent ==
  /\ ServerUp
  /\ CanCreateRoom
  /\ CanLaunch
  /\ \E out \in ProvisionOutcomes :
       LET room == ProvisionedRoom(out)
           bp == PollBP(bot_procs, os, RoomKeys(room))
           ps == PollOS(bot_procs, os, RoomKeys(room))
       IN /\ roomsCreated' = IF out = "no_room" THEN roomsCreated
                             ELSE roomsCreated + 1
          /\ IF out # "ok"
             THEN /\ resp' = AutobotExcept(NoRoom, ProvisionError(out))
                  /\ UNCHANGED <<bot_procs, os, spawned>>
             ELSE IF AutobotCapReached(NumBotsInRoom(room))
             THEN /\ resp' = AutobotExcept(room, "Max bot limit reached for room")
                  /\ UNCHANGED spawned
                  /\ bot_procs' = bp
                  /\ os' = ps
             ELSE \/ \E pid \in FreePids(bp, ps) :
                       /\ spawned' = spawned + 1
                       /\ os' = Popen(ps, pid, room)
                       /\ bot_procs' = Register(bp, pid, room)
                       /\ resp' = [NoResp EXCEPT !.op = "autobot",
                                     !.status = "redirect", !.room = room,
                                     !.pid = pid, !.creates = 1, !.token = "token"]
                  \/ /\ resp' = AutobotExcept(room, "Failed to start subprocess")
                     /\ UNCHANGED spawned
                     /\ bot_procs' = bp
                     /\ os' = ps
  /\ UNCHANGED <<pending, reaper>>

\* ---------------------------------------------------------- rtvi_connect
\* variant: the bot is started for the new room (the behaviour the handler
\* was modified to drop)
rtvi_connect_spawn ==
  /\ ServerUp
  /\ CanCreateRoom
  /\ CanLaunch
  /\ \E pid \in FreePids(bot_procs, os) :
       /\ roomsCreated' = roomsCreated + 1
       /\ os' = Popen(os, pid, roomsCreated + 1)
       /\ bot_procs' = Register(bot_procs, pid, roomsCreated + 1)
       /\ spawned' = spawned + 1
       /\ resp' = [NoResp EXCEPT !.op = "connect", !.status = "ok",
                     !.room = roomsCreated + 1, !.token = "token", !.creates = 1]
  /\ UNCHANGED <<pending, reaper>>

\* POST /connect: lines 187-195
rtvi_connect ==
  /\ ServerUp
  /\ CanCreateRoom
  /\ \E out \in ProvisionOutcomes :
       /\ roomsCreated' = IF out = "no_room" THEN roomsCreated ELSE roomsCreated + 1
       /\ resp' = IF out = "ok"
                  THEN [NoResp EXCEPT !.op = "connect", !.status = "ok",
                          !.room = ProvisionedRoom(out), !.token = "token",
                          !.creates = 1]
                  ELSE [NoResp EXCEPT !.op = "connect", !.status = "http500",
                          !.msg = ProvisionError(out), !.creates = 1]
  /\ UNCHANGED <<bot_procs, os, pending, reaper, spawned>>

\* ------------------------------------------------------------ get_status
\* variant: an unknown pid answered as a finished bot
get_status_unknown(pid) ==
  /\ ServerUp
  /\ resp' = [NoResp EXCEPT !.op = "status", !.pid = pid,
                !.status = IF pid \in Registered /\ IsRunning(bot_procs, os, pid)
                           THEN "running" ELSE "finished"]
  /\ bot_procs' = PollBP(bot_procs, os, {pid} \cap Registered)
  /\ os' = PollOS(bot_procs, os, {pid} \cap Registered)
  /\ UNCHANGED <<pending, roomsCreated, reaper, spawned>>

\* GET /status/{pid}: lines 212-220
get_status(pid) ==
  /\ ServerUp
  /\ IF pid \notin Registered
     THEN /\ resp' = [NoResp EXCEPT !.op = "status", !.pid = pid,
                        !.status = "notfound", !.msg = "404"]
          /\ UNCHANGED <<bot_procs, os>>
     ELSE /\ resp' = [NoResp EXCEPT !.op = "status", !.pid = pid,
                        !.status = IF IsRunning(bot_procs, os, pid) THEN "running"
                                   ELSE "finished"]
          /\ bot_procs' = PollBP(bot_procs, os, {pid})
          /\ os' = PollOS(bot_procs, os, {pid})
  /\ UNCHANGED <<pending, roomsCreated, reaper, spawned>>

\* --------------------------------------------------------- deactivate_bot
\* variant: the room comparison of line 267 left out
StoppedBots_anyroom(room) ==
  SelectSeq(bot_order, LAMBDA p : p \in Registered /\ IsRunning(bot_procs, os, p))

\* stopped_bots: the keys the loop of lines 266-269 terminates, in dict order
StoppedBots(room) ==
  SelectSeq(bot_order, LAMBDA p : p \in RoomKeys(room) /\ IsRunning(bot_procs, os, p))

\* variant: a signalled entry is dropped from the registry
Terminate_forget(bp, S) == [p \in Pids |-> IF p \in S THEN NoEntry ELSE bp[p]]

\* proc.terminate() on the entries S
Terminate(bp, S) == [p \in Pids |-> IF p \in S THEN [bp[p] EXCEPT !.sig = TRUE] ELSE bp[p]]

\* variant: the stopped entries are deleted from the registry
deactivate_bot_del(arg) ==
  /\ ServerUp
  /\ IF arg # NoRoom
     THEN LET stopped == StoppedBots(arg)
          IN /\ bot_procs' = [p \in Pids |->
                                IF p \in SeqToSet(stopped) THEN NoEntry
                                ELSE PollBP(bot_procs, os, RoomKeys(arg))[p]]
             /\ os' = PollOS(bot_procs, os, RoomKeys(arg))
             /\ resp' = [NoResp EXCEPT !.op = "deactivate", !.arg = arg,
                           !.status = "bot_deactivated", !.room = arg,
                           !.stopped = stopped, !.msg = "Bot(s) deactivated in room"]
     ELSE /\ resp' = [NoResp EXCEPT !.op = "deactivate", !.arg = arg,
                        !.status = "bot_deactivated",
                        !.msg = "No specific room provided - use room_url parameter"]
          /\ UNCHANGED <<bot_procs, os>>
  /\ UNCHANGED <<pending, roomsCreated, reaper, spawned>>

\* variant: without a room every running bot is terminated
deactivate_bot_all(arg) ==
  /\ ServerUp
  /\ LET keys == IF arg # NoRoom THEN RoomKeys(arg) ELSE Registered
         stopped == SelectSeq(bot_order,
                              LAMBDA p : p \in keys /\ IsRunning(bot_procs, os, p))
     IN /\ bot_procs' = Terminate(PollBP(bot_procs, os, keys), SeqToSet(stopped))
        /\ os' = PollOS(bot_procs, os, keys)
        /\ resp' = IF arg # NoRoom
                   THEN [NoResp EXCEPT !.op = "deactivate", !.arg = arg,
                           !.status = "bot_deactivated", !.room = arg,
                           !.stopped = stopped, !.msg = "Bot(s) deactivated in room"]
                   ELSE [NoResp EXCEPT !.op = "deactivate", !.arg = arg,
                           !.status = "bot_deactivated",
                           !.msg = "No specific room provided - use room_url parameter"]
  /\ UNCHANGED <<pending, roomsCreated, reaper, spawned>>

\* GET /bot/deactivate: lines 262-280 (no await: one uninterrupted stretch)
deactivate_bot(arg) ==
  /\ ServerUp
  /\ IF arg # NoRoom
     THEN LET stopped == StoppedBots(arg)
          IN /\ bot_procs' = Terminate(PollBP(bot_procs, os, RoomKeys(arg)),
                                       SeqToSet(stopped))
             /\ os' = PollOS(bot_procs, os, RoomKeys(arg))
             /\ resp' = [NoResp EXCEPT !.op = "deactivate", !.arg = arg,
                           !.status = "bot_deactivated", !.room = arg,
                           !.stopped = stopped, !.msg = "Bot(s) deactivated in room"]
     ELSE /\ resp' = [NoResp EXCEPT !.op = "deactivate", !.arg = arg,
                        !.status = "bot_deactivated",
                        !.msg = "No specific room provided - use room_url parameter"]
          /\ UNCHANGED <<bot_procs, os>>
  /\ UNCHANGED <<pending, roomsCreated, reaper, spawned>>

\* ------------------------------------------------------- worker processes
\* a bot process exits: on its own, or after SIGTERM
WorkerExit(p) ==
  /\ os[p].st = "running"
  /\ os' = [os EXCEPT ![p].st = "zombie"]
  /\ resp' = NoResp
  /\ UNCHANGED <<bot_procs, pending, roomsCreated, reaper, spawned>>

\* --------------------------------------------------- lifespan and cleanup
\* variant: cleanup() starts while activate requests are still in flight
LifespanShutdown_inflight ==
  /\ ServerUp
  /\ reaper' = [pc |-> IF Len(bot_order) = 0 THEN "done" ELSE "terminate",
                idx |-> 1,
                live0 |-> {p \in Registered : IsRunning(bot_procs, os, p)}]
  /\ resp' = NoResp
  /\ UNCHANGED <<bot_procs, os, pending, roomsCreated, spawned>>

\* lifespan after `yield` (lines 80-81): the server has stopped serving and
\* no request is in flight; cleanup() starts to iterate bot_procs.values()
LifespanShutdown ==
  /\ ServerUp
  /\ pending = EmptyBag
  /\ reaper' = [pc |-> IF Len(bot_order) = 0 THEN "done" ELSE "terminate",
                idx |-> 1,
                live0 |-> {p \in Registered : IsRunning(bot_procs, os, p)}]
  /\ resp' = NoResp
  /\ UNCHANGED <<bot_procs, os, pending, roomsCreated, spawned>>

\* variant: every entry is signalled at once, before the first wait
CleanupTerminate_all ==
  /\ reaper.pc = "terminate"
  /\ bot_procs' = Terminate(PollBP(bot_procs, os, Registered), Registered)
  /\ os' = PollOS(bot_procs, os, Registered)
  /\ reaper' = [reaper EXCEPT !.pc = "wait"]
  /\ resp' = NoResp
  /\ UNCHANGED <<pending, roomsCreated, spawned>>

\* line 57: proc.terminate() on the entry under the iterator
CleanupTerminate ==
  /\ reaper.pc = "terminate"
  /\ LET p == bot_order[reaper.idx]
     IN /\ bot_procs' = Terminate(PollBP(bot_procs, os, {p}), {p})
        /\ os' = PollOS(bot_procs, os, {p})
  /\ reaper' = [reaper EXCEPT !.pc = "wait"]
  /\ resp' = NoResp
  /\ UNCHANGED <<pending, roomsCreated, spawned>>

\* variant: the loop does not block on the process (poll in place of wait)
CleanupWait_nowait ==
  /\ reaper.pc = "wait"
  /\ LET p == bot_order[reaper.idx]
     IN /\ bot_procs' = PollBP(bot_procs, os, {p})
        /\ os' = PollOS(bot_procs, os, {p})
  /\ reaper' = [reaper EXCEPT !.idx = reaper.idx + 1,
                              !.pc = IF reaper.idx + 1 > Len(bot_order)
                                     THEN "done" ELSE "terminate"]
  /\ resp' = NoResp
  /\ UNCHANGED <<pending, roomsCreated, spawned>>

\* line 58: proc.wait() returns once the process has exited
CleanupWait ==
  /\ reaper.pc = "wait"
  /\ LET p == bot_order[reaper.idx]
     IN /\ ~IsRunning(bot_procs, os, p)
        /\ bot_procs' = PollBP(bot_procs, os, {p})
        /\ os' = PollOS(bot_procs, os, {p})
  /\ reaper' = [reaper EXCEPT !.idx = reaper.idx + 1,
                              !.pc = IF reaper.idx + 1 > Len(bot_order)
                                     THEN "done" ELSE "terminate"]
  /\ resp' = NoResp
  /\ UNCHANGED <<pending, roomsCreated, spawned>>

\* ------------------------------------------------------------------ specs
\* the room urls a caller can name: those the provisioner has created so far
\* (the code treats every url alike, and a url made up by a caller never
\* equals one the provisioner creates later)
KnownRooms == 1..roomsCreated

\* status probes may name any pid, and 0, which is never a pid
ProbeIds == 0..MaxSpawn

Serve ==
  \/ rtvi_connect
  \/ \E q \in BagToSet(pending) : ActivateSpawn(q)
  \/ \E pid \in ProbeIds : get_status(pid)
  \/ \E arg \in {NoRoom} \cup KnownRooms : deactivate_bot(arg)
  \/ \E p \in Pids : WorkerExit(p)

Shutdown ==
  \/ LifespanShutdown
  \/ CleanupTerminate
  \/ CleanupWait

\* launch requests arrive at any time
Next ==
  \/ \E arg \in {NoRoom} \cup KnownRooms : ActivateBegin(arg)
  \/ start_agent
  \/ Serve
  \/ Shutdown

Spec == Init /\ [][Next]_vars

\* launch requests never overlap: one arrives only when none is in flight
NextSeq ==
  \/ \E arg \in {NoRoom} \cup KnownRooms : pending = EmptyBag /\ ActivateBegin(arg)
  \/ pending = EmptyBag /\ start_agent
  \/ Serve
  \/ Shutdown

SeqSpec == Init /\ [][NextSeq]_vars

\* a process that was sent SIGTERM exits, status probes keep coming while
\* the server is up, and the loop of cleanup() keeps running
Fairness ==
  /\ \A p \in Pids : WF_vars(bot_procs[p].sig /\ bot_procs[p].proc = "unpolled"
                             /\ WorkerExit(p))
  /\ \A pid \in Pids : WF_vars(get_status(pid))
  /\ WF_vars(CleanupTerminate)
  /\ WF_vars(CleanupWait)

FairSpec == Init /\ [][Next]_vars /\ Fairness

TypeOK ==
  /\ \A p \in Pids : bot_procs[p].proc \in {"absent", "unpolled", "returned"}
  /\ \A p \in Pids : os[p].st \in {"free", "running", "zombie"}
  /\ \A p \in Pids : os[p].st # "free" => bot_procs[p].proc = "unpolled"
  /\ \A p \in Registered : \A q \in 1..(p - 1) : q \in Registered
  /\ roomsCreated \in 0..NumRooms
  /\ spawned \in 0..MaxSpawn
  /\ spawned + BagCardinality(pending) <= MaxSpawn

\* ---------------------------------------------------------------- claims
\* C1: when a room already holds MAX_BOTS_PER_ROOM running workers, an
\* activate(roomId) request for it is answered with the structured error
\* (status "error", "Max bot limit reached for room: <roomId>"); the step
\* starts no process, adds no registry entry and suspends no request, so the
\* live-worker count of the room is unchanged.
C1_CapRefused ==
  [][\A R \in RoomIds :
       (/\ NumBotsInRoom(R) >= MAX_BOTS_PER_ROOM
        /\ resp'.op = "activate" /\ resp'.arg = R
        /\ resp'.status \in {"error", "await_token"})
       => /\ resp'.status = "error"
          /\ resp'.msg = "Max bot limit reached for room" /\ resp'.room = R
          /\ Registered' = Registered
          /\ \A p \in Pids : bot_procs'[p].room = bot_procs[p].room
          /\ \A p \in Pids : (os'[p].st = "running") <=> (os[p].st = "running")
          /\ pending' = pending
          /\ spawned' = spawned
          /\ NumBotsInRoom(R)' = NumBotsInRoom(R)]_vars

\* an activate for a room at its cap has just been refused
C1_Witness ==
  /\ resp.op = "activate" /\ resp.status = "error" /\ resp.arg # NoRoom
  /\ NumBotsInRoom(resp.arg) = MAX_BOTS_PER_ROOM

\* C2: when launch requests never overlap (SeqSpec), no room ever has more
\* than MAX_BOTS_PER_ROOM registry entries whose process is still running,
\* however deactivate, status probes and worker exits are interleaved.
C2_CapHeldSequential ==
  \A R \in RoomIds : NumBotsInRoom(R) <= MAX_BOTS_PER_ROOM

\* a room is at its cap again after one of its workers was deactivated
C2_Witness ==
  \E R \in RoomIds :
    /\ NumBotsInRoom(R) = MAX_BOTS_PER_ROOM
    /\ \E p \in RoomKeys(R) : bot_procs[p].sig /\ ~IsRunning(bot_procs, os, p)

\* C3: a room gets more than MAX_BOTS_PER_ROOM running workers through
\* overlapping activate requests: each request suspended before its Popen
\* saw a live count below the cap, and the step that takes the room over
\* the cap is the completion (spawn and register) of such a request.  The
\* state over the cap is reachable (C3_Witness).
C3_OvershootOnlyByRace ==
  [][\A R \in RoomIds :
       /\ (\E q \in BagToSet(pending') :
             q.room = R /\ CopiesIn(q, pending') > CopiesIn(q, pending))
          => NumBotsInRoom(R) < MAX_BOTS_PER_ROOM
       /\ (NumBotsInRoom(R) <= MAX_BOTS_PER_ROOM
           /\ NumBotsInRoom(R)' > MAX_BOTS_PER_ROOM)
          => \E q \in BagToSet(pending) :
               /\ q.room = R
               /\ pending' = pending (-) SetToBag({q})
               /\ resp'.op = "activate" /\ resp'.status = "bot_activated"
               /\ resp'.room = R /\ IsRunning(bot_procs', os', resp'.pid)]_vars

\* more running workers are registered for one room than the cap allows
C3_Witness ==
  \E R \in RoomIds : NumBotsInRoom(R) > MAX_BOTS_PER_ROOM

\* C4: no step removes a key from the registry, and a status probe of a
\* registered worker id never answers 404, also after deactivate.
C4_RegistryOnlyGrows ==
  [][/\ Registered \subseteq Registered'
     /\ (resp'.op = "status" /\ resp'.pid \in Registered)
        => resp'.status # "notfound"]_vars

\* a worker stopped by deactivate has just been probed and reported finished
C4_Witness ==
  /\ resp.op = "status" /\ resp.status = "finished"
  /\ resp.pid \in Registered /\ bot_procs[resp.pid].sig

\* C5: after deactivate(roomId) returned, every worker id in its stopped
\* list is eventually reported "finished" by a status probe (a signalled
\* worker exits and probes keep coming, FairSpec), unless the server shuts
\* down first.
C5_StoppedEventuallyFinished ==
  \A p \in Pids :
    (resp.op = "deactivate" /\ p \in SeqToSet(resp.stopped))
      ~> (\/ resp.op = "status" /\ resp.pid = p /\ resp.status = "finished"
          \/ ~ServerUp)

\* C6: with cap 1, the activate(roomId) that directly follows a
\* deactivate(roomId) which listed the room's running worker as stopped
\* passes its capacity check (it is not refused), as it must to succeed
\* with a new worker id.
C6_ReactivateSucceeds ==
  [][(/\ resp.op = "deactivate" /\ resp.arg # NoRoom /\ resp.stopped # <<>>
      /\ resp'.op = "activate" /\ resp'.arg = resp.arg
      /\ resp'.status \in {"error", "await_token"})
     => resp'.status = "await_token"]_vars

\* C7: a status probe of a worker id that was never registered answers 404
\* and leaves the registry and every process as they were.
C7_UnknownPidNotFound ==
  [][(resp'.op = "status" /\ resp'.pid \notin Registered)
     => /\ resp'.status = "notfound"
        /\ UNCHANGED <<bot_procs, os>>]_vars

\* an unknown id was probed while a worker was running
C7_Witness ==
  /\ resp.op = "status" /\ resp.status = "notfound"
  /\ \E p \in Registered : IsRunning(bot_procs, os, p)

\* C8: an activate() without room id creates exactly one room, on its way to
\* the capacity check and none afterwards; when it succeeds, the room in its
\* response is that room, and it is the room stored in the registry entry
\* (and given to the process) of the worker id it returns.
C8_FreshRoomBound ==
  [][/\ (resp'.op = "activate" /\ resp'.arg = NoRoom
         /\ resp'.status = "await_token")
        => /\ roomsCreated' = roomsCreated + 1
           /\ resp'.room = roomsCreated'
           /\ pending' = pending (+) SetToBag({[arg |-> NoRoom, room |-> resp'.room]})
     /\ (resp'.op = "activate" /\ resp'.arg = NoRoom
         /\ resp'.status = "bot_activated")
        => /\ roomsCreated' = roomsCreated
           /\ resp'.creates = 1
           /\ BagIn([arg |-> NoRoom, room |-> resp'.room], pending)
           /\ resp'.pid \in Registered'
           /\ bot_procs'[resp'.pid].room = resp'.room
           /\ os'[resp'.pid].room = resp'.room]_vars

\* an activate() without room id has just succeeded
C8_Witness ==
  /\ resp.op = "activate" /\ resp.arg = NoRoom /\ resp.status = "bot_activated"
  /\ bot_procs[resp.pid].room = resp.room /\ resp.room \in 1..roomsCreated

\* C9: when cleanup() has returned, every worker that was registered and
\* running when it started has been signalled and has exited, every registry
\* entry probes as finished and no process is left.
C9_AllReaped ==
  reaper.pc = "done"
    => /\ \A p \in reaper.live0 :
            bot_procs[p].sig /\ ~IsRunning(bot_procs, os, p)
       /\ \A p \in Registered : bot_procs[p].proc = "returned"
       /\ \A p \in Pids : os[p].st = "free"

\* cleanup() has returned after it found two workers running
C9_Witness ==
  reaper.pc = "done" /\ Cardinality(reaper.live0) >= 2

\* C10: deactivate without room id signals no worker, leaves the registry
\* and every process unchanged, and answers that no room was given.
C10_NoRoomNoOp ==
  [][(resp'.op = "deactivate" /\ resp'.arg = NoRoom)
     => /\ UNCHANGED <<bot_procs, os>>
        /\ resp'.stopped = <<>>
        /\ resp'.msg = "No specific room provided - use room_url parameter"]_vars

\* deactivate without room id was answered while a worker was running
C10_Witness ==
  /\ resp.op = "deactivate" /\ resp.arg = NoRoom
  /\ \E p \in Registered : IsRunning(bot_procs, os, p)

\* C11: deactivate(roomId) calls terminate() on exactly the registry entries
\* of that room whose process is running at the time of the call and returns
\* exactly their ids as the stopped list; no entry of another room and no
\* finished entry is signalled by the step.
C11_DeactivateExactlyRoom ==
  [][(resp'.op = "deactivate" /\ resp'.arg # NoRoom)
     => LET live == {p \in RoomKeys(resp'.arg) : IsRunning(bot_procs, os, p)}
        IN /\ SeqToSet(resp'.stopped) = live
           /\ Len(resp'.stopped) = Cardinality(live)
           /\ \A p \in live : bot_procs'[p].sig
           /\ \A p \in Pids \ live : bot_procs'[p].sig = bot_procs[p].sig]_vars

\* a deactivate has stopped a worker while a worker of another room was
\* running, and that one was left unsignalled
C11_Witness ==
  /\ resp.op = "deactivate" /\ resp.stopped # <<>>
  /\ \E p \in Registered :
       /\ bot_procs[p].room # resp.arg
       /\ IsRunning(bot_procs, os, p) /\ ~bot_procs[p].sig

\* C12: POST /connect creates a room and answers with its url and a token,
\* or fails; in both cases the step starts no process and leaves the
\* registry, the processes and the suspended requests as they were.
C12_ConnectLaunchesNothing ==
  [][(resp'.op = "connect")
     => /\ UNCHANGED <<bot_procs, os, pending, spawned>>
        /\ resp'.status = "ok"
           => /\ roomsCreated' = roomsCreated + 1
              /\ resp'.room = roomsCreated'
              /\ resp'.token = "token"
        /\ resp'.status # "ok"
           => resp'.status = "http500" /\ resp'.room = NoRoom]_vars

\* a connect was answered with a room while a worker was running
C12_Witness ==
  /\ resp.op = "connect" /\ resp.status = "ok" /\ resp.room = roomsCreated
  /\ \E p \in Registered : IsRunning(bot_procs, os, p)

\* C13: every GET /bot/activate request ends with the success result
\* (status "bot_activated") or the structured error result (status "error");
\* no failure of room creation, token request or Popen leaves the handler
\* as an unhandled exception.  ("await_token" marks a request that has not
\* ended yet.)
C13_ActivateStructured ==
  resp.op = "activate" => resp.status \in {"bot_activated", "error", "await_token"}

\* C14: when a launch (activate, or the auto-bot path of GET /) answers
\* success, the pid of the process it started is a key of the registry and
\* the room of that entry is the room the process was started for; a launch
\* that answers an error has started no process and registered nothing.
C14_RegisteredBeforeReturn ==
  [][/\ (resp'.op \in {"activate", "autobot"}
         /\ resp'.status \in {"bot_activated", "redirect"})
        => /\ resp'.pid \in Registered'
           /\ bot_procs'[resp'.pid] = [proc |-> "unpolled", room |-> resp'.room,
                                       sig |-> FALSE]
           /\ os'[resp'.pid] = [st |-> "running", room |-> resp'.room]
           /\ os[resp'.pid].st = "free"
     /\ (resp'.op \in {"activate", "autobot"}
         /\ resp'.status \in {"error", "unhandled", "http500"})
        => /\ Registered' = Registered
           /\ \A p \in Pids : /\ bot_procs'[p].room = bot_procs[p].room
                              /\ bot_procs'[p].sig = bot_procs[p].sig
                              /\ os'[p].st = "running" <=> os[p].st = "running"
           /\ spawned' = spawned]_vars

\* the auto-bot path has just answered with its redirect
C14_Witness ==
  /\ resp.op = "autobot" /\ resp.status = "redirect"
  /\ resp.pid \in Registered /\ bot_procs[resp.pid].room = resp.room

\* C15: per worker id the observed lifecycle is monotone: once a status
\* probe of an id has answered "finished", no later probe of the same id
\* answers "running", whatever activate, deactivate and process exits
\* happen in between, a reused process id included.
C15_FinishedIsFinal ==
  \A p \in Pids :
    []((resp.op = "status" /\ resp.pid = p /\ resp.status = "finished")
       => [](~(resp.op = "status" /\ resp.pid = p /\ resp.status = "running")))

\* C16: a launch that registers its process inserts a new key: the pid it
\* stores under is not a key of the registry before the step, so no entry
\* is ever replaced.
C16_RegisterInsertsOnly ==
  [][(resp'.op \in {"activate", "autobot"}
      /\ resp'.status \in {"bot_activated", "redirect"})
     => resp'.pid \notin Registered]_vars

\* C17: no process is started unless a token was obtained for its room: a
\* launch that has started and registered a process (activate with a
\* supplied room, activate with a fresh room, auto-bot) had a token from its
\* token request.
C17_NoSpawnWithoutToken ==
  (resp.op \in {"activate", "autobot"} /\ resp.status \in {"bot_activated", "redirect"})
    => resp.token = "token"

\* C18: when room creation fails in a launch (activate without room id, or
\* the auto-bot path), the request has made its one provisioning call, no
\* room exists for it, and the step starts no process, suspends no request
\* and leaves the registry as it was.
C18_RoomFailureLaunchesNothing ==
  [][(/\ resp'.op \in {"activate", "autobot"}
      /\ resp'.status \in {"unhandled", "http500", "error"}
      /\ resp'.room = NoRoom
      /\ roomsCreated' = roomsCreated)
     => /\ resp'.creates = 1
        /\ UNCHANGED <<bot_procs, os, pending, spawned>>]_vars

\* the auto-bot path has failed to create its room while a worker was running
C18_Witness ==
  /\ resp.op = "autobot" /\ resp.status = "http500"
  /\ resp.msg = "Failed to create room"
  /\ \E p \in Registered : IsRunning(bot_procs, os, p)

\* C19: between the capacity check of a launch and its Popen no other
\* request registers a process for the same room: no step registers an
\* entry for room R while a request for R that has passed its check is
\* still waiting to spawn.
C19_CheckSpawnAtomic ==
  [][\A q \in BagToSet(pending') :
       BagIn(q, pending)
         => ~(/\ resp'.op \in {"activate", "autobot"}
              /\ resp'.status \in {"bot_activated", "redirect"}
              /\ resp'.room = q.room)]_vars

\* C20: cleanup() visits the registry entries one at a time in dict order:
\* it signals an entry only when it is the entry under the iterator and all
\* entries before it have exited, it moves on only once the signalled
\* process has exited (so a worker that never exits blocks it for good and
\* the entries after it are never signalled), it is done only when no
\* process is running, and, every signalled worker exiting, it reaches
\* completion.
C20_CleanupSequential ==
  /\ [][/\ (~ServerUp /\ reaper'.idx # reaper.idx)
           => /\ reaper.pc = "wait" /\ reaper'.idx = reaper.idx + 1
              /\ bot_procs[bot_order[reaper.idx]].sig
              /\ ~IsRunning(bot_procs, os, bot_order[reaper.idx])
        /\ \A p \in Pids :
             (~ServerUp /\ bot_procs'[p].sig /\ ~bot_procs[p].sig)
             => /\ reaper.pc = "terminate" /\ p = bot_order[reaper.idx]
                /\ \A i \in 1..(reaper.idx - 1) :
                     ~IsRunning(bot_procs, os, bot_order[i])
        /\ (~ServerUp /\ reaper'.pc = "done")
           => \A p \in Registered : ~IsRunning(bot_procs', os', p)]_vars
  /\ (~ServerUp) ~> (reaper.pc = "done")

\* cleanup() is blocked on the first worker, signalled and still running,
\* while a later worker runs unsignalled
C20_Witness ==
  /\ reaper.pc = "wait" /\ reaper.idx = 1
  /\ bot_procs[bot_order[1]].sig /\ IsRunning(bot_procs, os, bot_order[1])
  /\ \E p \in Registered :
       p # bot_order[1] /\ IsRunning(bot_procs, os, p) /\ ~bot_procs[p].sig

C22_NoOrphans ==
  /\ [](\A p \in Pids :
          os[p].st = "running"
            => /\ p \in Registered
               /\ bot_procs[p].proc = "unpolled"
               /\ bot_procs[p].room = os[p].room)
  /\ [][(/\ resp'.op \in {"activate", "autobot"}
         /\ resp'.status \in {"bot_activated", "redirect"}
         /\ resp'.pid \in Registered)
        => /\ bot_procs[resp'.pid].proc = "returned"
           /\ os[resp'.pid].st = "free"]_vars

\* the second process the server started runs under the pid of the first
C22_Witness ==
  /\ spawned = 2 /\ resp.status \in {"bot_activated", "redirect"} /\ resp.pid = 1
  /\ IsRunning(bot_procs, os, 1) /\ bot_procs[1].room = os[1].room

\* C23: no launch inserts into the registry while a scan of it is under
\* way: not during the iteration of cleanup(), and not in a step that
\* performs the capacity count of activate_bot or the loop of
\* deactivate_bot; in these steps no key is added, no entry is replaced and
\* no process is started.
C23_NoInsertDuringScan ==
  [][(\/ reaper.pc \in {"terminate", "wait"}
      \/ resp'.op = "deactivate"
      \/ resp'.op = "activate" /\ resp'.status \in {"error", "await_token"})
     => /\ Registered' = Registered
        /\ spawned' = spawned
        /\ \A p \in Pids :
             /\ bot_procs'[p].room = bot_procs[p].room
             /\ bot_procs[p].proc = "returned" => bot_procs'[p].proc = "returned"
             /\ os[p].st # "running" => os'[p].st # "running"]_vars

\* cleanup() is in the middle of its iteration over two entries
C23_Witness ==
  /\ reaper.pc = "terminate" /\ reaper.idx = 2
  /\ Cardinality(Registered) = 2 /\ bot_procs[1].sig

====
